---- MODULE Spec2Model ----
(***************************************************************************)
(* Proof-of-work difficulty computation of src/src/pow.cpp: the work       *)
(* requirement dispatcher, the legacy retarget with its emergency          *)
(* difficulty adjustment, the weighted difficulty adjustment, the          *)
(* median-of-three block selector and the proof-of-work verifier.          *)
(*                                                                         *)
(* A 256-bit unsigned integer (arith_uint256) is a tuple of WIDTH bytes,   *)
(* least significant byte first, so that every operation keeps its 256-bit *)
(* width and wraps as the fixed-width type does.                           *)
(***************************************************************************)
EXTENDS Integers, Sequences, FiniteSets, TLC

\* ------------------------------------------------------------------------
\* arith_uint256 (arith_uint256.h / arith_uint256.cpp, outside src/)
\* ------------------------------------------------------------------------

\* Number of bytes of an arith_uint256 (256 bits).
WIDTH == 32

Bytes == 1..WIDTH

\* The bytes of a value as an explicit tuple.
Tuple(f) == SubSeq(f, 1, WIDTH)

\* arith_uint256(uint64_t): a value below 2^31 as a 256-bit integer.
U256(n) ==
    Tuple([i \in Bytes |->
        CASE i = 1 -> n % 256
          [] i = 2 -> (n \div 256) % 256
          [] i = 3 -> (n \div 65536) % 256
          [] i = 4 -> (n \div 16777216) % 256
          [] OTHER -> 0])

\* The index of the highest non-zero byte, 0 for the value 0: (bits() + 7) / 8.
ByteSize(a) ==
    LET NZ == {i \in Bytes : a[i] # 0}
    IN  IF NZ = {} THEN 0 ELSE CHOOSE i \in NZ : \A j \in NZ : j <= i

\* The number of bits of a byte value.
BitsOfByte(b) ==
    CASE b >= 128 -> 8
      [] b >= 64 -> 7
      [] b >= 32 -> 6
      [] b >= 16 -> 5
      [] b >= 8 -> 4
      [] b >= 4 -> 3
      [] b >= 2 -> 2
      [] b >= 1 -> 1
      [] OTHER -> 0

\* base_uint::bits(): the position of the highest set bit plus one.
BitsOf(a) ==
    LET n == ByteSize(a)
    IN  IF n = 0 THEN 0 ELSE 8 * (n - 1) + BitsOfByte(a[n])

\* base_uint::CompareTo: -1, 0 or 1.
CompareTo(a, b) ==
    LET D == {i \in Bytes : a[i] # b[i]}
    IN  IF D = {} THEN 0
        ELSE LET m == CHOOSE i \in D : \A j \in D : j <= i
             IN  IF a[m] < b[m] THEN -1 ELSE 1

\* GetLow64() of a value known to fit in 31 bits.
GetLow(a) == a[1] + 256 * a[2] + 65536 * a[3] + 16777216 * a[4]

\* Whether the addition of a and b carries into byte i: some lower byte
\* overflows and every byte between it and i passes the carry on.
CarryInto(a, b, i) ==
    \E j \in 1..(i - 1) :
        /\ a[j] + b[j] >= 256
        /\ \A k \in (j + 1)..(i - 1) : a[k] + b[k] = 255

\* operator+=: addition modulo 2^256.
Plus(a, b) ==
    Tuple([i \in Bytes |->
        (a[i] + b[i] + (IF CarryInto(a, b, i) THEN 1 ELSE 0)) % 256])

\* operator~ followed by ++: the two's-complement negation modulo 2^256.
Negate(a) == Plus(Tuple([i \in Bytes |-> 255 - a[i]]), U256(1))

\* operator-=: subtraction modulo 2^256.
Minus(a, b) == Plus(a, Negate(b))

RECURSIVE MulCarry(_, _, _, _, _)
MulCarry(a, m, i, carry, acc) ==
    IF i > WIDTH \/ carry < 0 \/ Len(acc) # WIDTH THEN acc
    ELSE LET s == a[i] * m + carry
         IN  MulCarry(a, m, i + 1, s \div 256, [acc EXCEPT ![i] = s % 256])

\* operator*=(uint32_t): multiplication by a small factor modulo 2^256.
\* The factor is below 2^23, so that no partial product leaves 31 bits.
Times(a, m) == MulCarry(a, m, 1, 0, a)

\* operator<<= by whole bytes; the bytes shifted past the width are lost.
ShiftLeftBytes(a, k) == Tuple([i \in Bytes |-> IF i - k >= 1 THEN a[i - k] ELSE 0])

\* operator>>= by whole bytes.
ShiftRightBytes(a, k) ==
    Tuple([i \in Bytes |-> IF i + k <= WIDTH THEN a[i + k] ELSE 0])

\* operator>>= by n bits, 0 < n < 8, given as d = 2^n.
ShiftRightBits(a, d) ==
    Tuple([i \in Bytes |->
        (a[i] \div d) + (IF i < WIDTH THEN (a[i + 1] % d) * (256 \div d) ELSE 0)])

\* operator<<= by one bit; the top bit is lost.
ShiftLeft1(a) ==
    Tuple([i \in Bytes |-> ((2 * a[i]) % 256) + (IF i > 1 THEN a[i - 1] \div 128 ELSE 0)])

RECURSIVE ShiftLeftN(_, _)
ShiftLeftN(a, n) ==
    IF n >= 8 THEN ShiftLeftN(ShiftLeftBytes(a, n \div 8), n % 8)
    ELSE IF n = 0 THEN a
    ELSE ShiftLeftN(ShiftLeft1(a), n - 1)

\* Sets bit `shift` of the quotient: pn[shift / 32] |= 1 << (shift & 31).
SetBit(q, shift) ==
    LET i == (shift \div 8) + 1
        b == shift % 8
        p == CASE b = 0 -> 1 [] b = 1 -> 2 [] b = 2 -> 4 [] b = 3 -> 8
               [] b = 4 -> 16 [] b = 5 -> 32 [] b = 6 -> 64 [] OTHER -> 128
    IN  [q EXCEPT ![i] = q[i] + p]

\* One round of the loop of base_uint::operator/= on <<num, div, quotient>>:
\* if (num >= div) { num -= div; set bit shift of the quotient } div >>= 1.
DivStep(st, shift) ==
    IF CompareTo(st[1], st[2]) >= 0
    THEN <<Minus(st[1], st[2]), ShiftRightBits(st[2], 2), SetBit(st[3], shift)>>
    ELSE <<st[1], ShiftRightBits(st[2], 2), st[3]>>

\* Up to n rounds of the loop, from bit `shift` downwards.
RECURSIVE DivRounds(_, _, _)
DivRounds(st, shift, n) ==
    IF n = 0 \/ shift < 0 \/ Len(st) # 3 THEN st
    ELSE DivRounds(DivStep(st, shift), shift - 1, n - 1)

\* The loop of base_uint::operator/=: shift-and-subtract long division,
\* while (shift >= 0), taken eight rounds at a time.
RECURSIVE DivLoop(_, _)
DivLoop(st, shift) ==
    IF shift < 0 \/ Len(st) # 3 THEN st[3]
    ELSE DivLoop(DivRounds(st, shift, 8), shift - 8)

RECURSIVE DivRem(_, _, _, _, _)
DivRem(a, d, i, rem, acc) ==
    IF i < 1 \/ rem < 0 \/ Len(acc) # WIDTH THEN acc
    ELSE LET cur == rem * 256 + a[i]
         IN  DivRem(a, d, i - 1, cur % d, [acc EXCEPT ![i] = cur \div d])

\* Whether a divisor is small enough for byte-wise short division.
SmallDivisor(b) == ByteSize(b) <= 2 \/ (ByteSize(b) = 3 /\ b[3] < 128)

\* operator/=: the floor of a / b, for b # 0 (b = 0 throws "Division by
\* zero": callers test it first).  The quotient by a divisor below 2^23 is
\* computed one byte at a time, every other one by the shift-and-subtract
\* loop of the source; both give the same quotient.
DividedBy(a, b) ==
    IF SmallDivisor(b) THEN DivRem(a, GetLow(b), WIDTH, 0, a)
    ELSE IF BitsOf(b) > BitsOf(a) THEN U256(0)
    ELSE LET shift == BitsOf(a) - BitsOf(b)
         IN  DivLoop(<<a, ShiftLeftN(b, shift), U256(0)>>, shift)

\* 256^k for the byte distances the compact format uses.
Pow256(k) == CASE k = 0 -> 1 [] k = 1 -> 256 [] k = 2 -> 65536 [] OTHER -> 16777216

\* arith_uint256::SetCompact: decodes a 32-bit compact value (below 2^31)
\* into the 256-bit magnitude and the negative and overflow flags.
SetCompact(nCompact) ==
    LET nSize == nCompact \div 16777216
        nMant == nCompact % 8388608
        nWord == IF nSize <= 3 THEN nMant \div Pow256(3 - nSize) ELSE nMant
        fSign == (nCompact \div 8388608) % 2 = 1
    IN  [value |-> IF nSize <= 3 THEN U256(nWord)
                   ELSE ShiftLeftBytes(U256(nWord), nSize - 3),
         fNegative |-> nWord # 0 /\ fSign,
         fOverflow |-> nWord # 0 /\ (nSize > 34 \/ (nWord > 255 /\ nSize > 33)
                                               \/ (nWord > 65535 /\ nSize > 32))]

\* arith_uint256::GetCompact(false): encodes a 256-bit magnitude.
GetCompact(a) ==
    LET nSize == ByteSize(a)
        nWord == IF nSize <= 3 THEN GetLow(a) * Pow256(3 - nSize)
                 ELSE GetLow(ShiftRightBytes(a, nSize - 3))
    IN  IF nWord >= 8388608
        THEN (nWord \div 256) + (nSize + 1) * 16777216
        ELSE nWord + nSize * 16777216

\* UintToArith256: the blob's bytes read as a little-endian integer.
UintToArith256(u) == Tuple([i \in Bytes |-> u[i]])

\* ------------------------------------------------------------------------
\* State
\* ------------------------------------------------------------------------

\* chain:  the block index, genesis first: chain[i] is the block of height
\*         i - 1, a record of nTime, nBits and nChainWork; its pprev is
\*         chain[i - 1].  A block is named by its position; NULL is no block.
\* params: the Consensus::Params of the network.
\* call:   the last operation applied, with its arguments and its outcome.
VARIABLES chain, params, call

vars == <<chain, params, call>>

NULL == 0

\* pindex->nHeight
Height(pindex) == pindex - 1

\* CBlockIndex::GetAncestor(height): the block of that height on the path
\* to genesis, nullptr if (height > nHeight || height < 0).
GetAncestor(pindex, height) ==
    IF height > Height(pindex) \/ height < 0 THEN NULL ELSE height + 1

\* The k-th smallest element of a sequence, 1 <= k <= Len(seq).
KthSmallest(seq, k) ==
    CHOOSE v \in {seq[i] : i \in 1..Len(seq)} :
        /\ Cardinality({i \in 1..Len(seq) : seq[i] < v}) < k
        /\ Cardinality({i \in 1..Len(seq) : seq[i] <= v}) >= k

\* CBlockIndex::nMedianTimeSpan
nMedianTimeSpan == 11

\* CBlockIndex::GetMedianTimePast: the median of the times of the block and
\* of up to 10 blocks before it, pbegin[(pend - pbegin) / 2] after the sort.
GetMedianTimePast(ch, pindex) ==
    LET lo == IF pindex > nMedianTimeSpan THEN pindex - nMedianTimeSpan + 1 ELSE 1
        n  == pindex - lo + 1
        ts == [i \in 1..n |-> ch[lo + i - 1].nTime]
    IN  KthSmallest(ts, (n \div 2) + 1)

\* GetBlockProof: the expected number of hashes of a block,
\* (~bnTarget / (bnTarget + 1)) + 1, and 0 for an invalid target.
GetBlockProof(nBits) ==
    LET d == SetCompact(nBits)
    IN  IF d.fNegative \/ d.fOverflow \/ ByteSize(d.value) = 0 THEN U256(0)
        ELSE Plus(DividedBy(Tuple([i \in Bytes |-> 255 - d.value[i]]),
                            Plus(d.value, U256(1))),
                  U256(1))

\* Consensus::Params::DifficultyAdjustmentInterval
DifficultyAdjustmentInterval(p) == p.nPowTargetTimespan \div p.nPowTargetSpacing

\* The ways a call ends: it returns a value, an assert aborts the process,
\* an exception leaves the function, or a null pointer is read.
Returned(v) == [kind |-> "ok", ret |-> v, err |-> ""]
Aborted(e)  == [kind |-> "assert", ret |-> 0, err |-> e]
Thrown(e)   == [kind |-> "throw", ret |-> 0, err |-> e]
Crashed(e)  == [kind |-> "segv", ret |-> 0, err |-> e]

\* ------------------------------------------------------------------------
\* pow.cpp
\* ------------------------------------------------------------------------

\* UintToArith256(params.powLimit).GetCompact()
PowLimitCompact(p) == GetCompact(UintToArith256(p.powLimit))

\* if (bnNew > bnPowLimit) bnNew = bnPowLimit;
ClampToPowLimit(bn, p) ==
    IF CompareTo(bn, UintToArith256(p.powLimit)) > 0
    THEN UintToArith256(p.powLimit) ELSE bn

\* The limited adjustment step of CalculateNextWorkRequired.
ClampTimespan(nActualTimespan, p) ==
    LET lo == p.nPowTargetTimespan \div 4
        hi == p.nPowTargetTimespan * 4
        t1 == IF nActualTimespan < lo THEN lo ELSE nActualTimespan
    IN  IF t1 > hi THEN hi ELSE t1

CalculateNextWorkRequired(ch, pindexPrev, nFirstBlockTime, p) ==
    IF p.fPowNoRetargeting THEN ch[pindexPrev].nBits
    ELSE LET nActualTimespan == ClampTimespan(ch[pindexPrev].nTime - nFirstBlockTime, p)
             bnNew == DividedBy(Times(SetCompact(ch[pindexPrev].nBits).value, nActualTimespan),
                                U256(p.nPowTargetTimespan))
         IN  GetCompact(ClampToPowLimit(bnNew, p))

\* A retarget decided on the height of pindexPrev itself.
IsRetargetHeightOfPrev(pindexPrev, p) ==
    Height(pindexPrev) % DifficultyAdjustmentInterval(p) = 0

\* nHeight % params.DifficultyAdjustmentInterval() == 0, nHeight the height
\* of the block after pindexPrev.
IsRetargetHeight(pindexPrev, p) ==
    (Height(pindexPrev) + 1) % DifficultyAdjustmentInterval(p) = 0

\* The testnet walk back to the last block that is not a special
\* min-difficulty block: the loop stops at the first block, going back from
\* pindexPrev, that has no pprev, is at a retarget height or does not carry
\* the proof-of-work limit.
LastNonMinDifficultyBlock(ch, pindexPrev, p) ==
    LET Stops(i) == \/ i = 1
                    \/ Height(i) % DifficultyAdjustmentInterval(p) = 0
                    \/ ch[i].nBits # PowLimitCompact(p)
        S == {i \in 1..pindexPrev : Stops(i)}
    IN  CHOOSE i \in S : \A j \in S : j <= i

\* The emergency adjustment engaging only past twelve hours.
EDAEngagesAfterTwelveHours(mtp6blocks) == mtp6blocks > 12 * 3600

\* The testnet rule comparing the duration with 240 spacings alone.
MinDifficultyOverrideByDuration(ch, pindexFirst, pindexLast, nPowTargetSpacing, p) ==
    /\ p.fPowAllowMinDifficultyBlocks
    /\ ch[pindexLast].nTime - ch[pindexFirst].nTime > 240 * nPowTargetSpacing

\* mtp6blocks < 12 * 3600 keeps the difficulty; otherwise the emergency
\* adjustment engages.
EDAEngages(mtp6blocks) == ~(mtp6blocks < 12 * 3600)

\* nPow += (nPow >> 2), then the clamp to the proof-of-work limit.
EDATarget(nBits, p) ==
    LET nPow == SetCompact(nBits).value
    IN  GetCompact(ClampToPowLimit(Plus(nPow, ShiftRightBits(nPow, 4)), p))

GetNextEDAWorkRequired(ch, pindexPrev, nBlockTime, p) ==
    LET nHeight == Height(pindexPrev) + 1
        nProofOfWorkLimit == PowLimitCompact(p)
        nBits == ch[pindexPrev].nBits
        \* nHeight - 7 is computed in uint32_t and passed as an int: below
        \* height 7 it is negative and GetAncestor returns nullptr.
        pindex6 == GetAncestor(pindexPrev, nHeight - 7)
    IN  IF IsRetargetHeight(pindexPrev, p)
        THEN LET pindexFirst ==
                     GetAncestor(pindexPrev, nHeight - DifficultyAdjustmentInterval(p))
             IN  IF pindexFirst = NULL THEN Aborted("pindexFirst")
                 ELSE Returned(CalculateNextWorkRequired(ch, pindexPrev,
                                                         ch[pindexFirst].nTime, p))
        ELSE IF p.fPowAllowMinDifficultyBlocks
        THEN IF nBlockTime > ch[pindexPrev].nTime + 2 * p.nPowTargetSpacing
             THEN Returned(nProofOfWorkLimit)
             ELSE Returned(ch[LastNonMinDifficultyBlock(ch, pindexPrev, p)].nBits)
        ELSE IF nBits = nProofOfWorkLimit THEN Returned(nProofOfWorkLimit)
        ELSE IF pindex6 = NULL THEN Aborted("pindex6")
        ELSE IF ~EDAEngages(GetMedianTimePast(ch, pindexPrev)
                            - GetMedianTimePast(ch, pindex6))
        THEN Returned(nBits)
        ELSE Returned(EDATarget(nBits, p))
\* The sorting network without its last compare-and-swap.
SortingNetworkTwoSteps(ch, blocks) ==
    LET b1 == IF ch[blocks[1]].nTime > ch[blocks[3]].nTime
              THEN <<blocks[3], blocks[2], blocks[1]>> ELSE blocks
    IN  IF ch[b1[1]].nTime > ch[b1[2]].nTime
        THEN <<b1[2], b1[1], b1[3]>> ELSE b1

\* CheckProofOfWork without the test of the overflow flag.
CheckProofOfWorkNoOverflowTest(hash, nBits, p) ==
    LET d == SetCompact(nBits)
    IN  IF \/ d.fNegative
           \/ ByteSize(d.value) = 0
           \/ CompareTo(d.value, UintToArith256(p.powLimit)) > 0
        THEN FALSE
        ELSE IF CompareTo(UintToArith256(hash), d.value) > 0 THEN FALSE
        ELSE TRUE

\* The three compare-and-swap steps of GetSuitableBlock on blocks[0..2],
\* here a triple of block positions.
SortingNetwork(ch, blocks) ==
    LET b1 == IF ch[blocks[1]].nTime > ch[blocks[3]].nTime
              THEN <<blocks[3], blocks[2], blocks[1]>> ELSE blocks
        b2 == IF ch[b1[1]].nTime > ch[b1[2]].nTime
              THEN <<b1[2], b1[1], b1[3]>> ELSE b1
    IN  IF ch[b2[2]].nTime > ch[b2[3]].nTime
        THEN <<b2[1], b2[3], b2[2]>> ELSE b2

\* GetSuitableBlock: the median by time of a block and its two predecessors.
\* The assert reads pindex->nHeight, so a null pindex is read.
GetSuitableBlock(ch, pindex) ==
    IF pindex = NULL THEN Crashed("pindex->nHeight")
    ELSE IF ~(Height(pindex) >= 3) THEN Aborted("pindex->nHeight >= 3")
    ELSE Returned(SortingNetwork(ch, <<pindex - 2, pindex - 1, pindex>>)[2])

\* pindexLast->nTime - pindex5->nTime is a uint32_t subtraction: when the
\* earlier block carries the later time it wraps to more than 2^31, which
\* exceeds every threshold it is compared with.  TRUE iff it is >= bound.
Uint32DiffAtLeast(a, b, bound) == IF a >= b THEN a - b >= bound ELSE TRUE

\* TRUE iff the uint32_t difference a - b is <= bound.
Uint32DiffAtMost(a, b, bound) == IF a >= b THEN a - b <= bound ELSE FALSE

\* nAdjustedSpacing of ComputeTarget after the one-minute fork.
AdjustedSpacing(ch, pindexLast, pindex5, p) ==
    IF Uint32DiffAtLeast(ch[pindexLast].nTime, ch[pindex5].nTime,
                         5 * 3 * p.nPowTargetSpacingOneMinute)
    THEN p.nPowTargetSpacingOneMinute \div 2
    ELSE IF Uint32DiffAtMost(ch[pindexLast].nTime, ch[pindex5].nTime,
                             (5 \div 3) * p.nPowTargetSpacingOneMinute)
    THEN p.nPowTargetSpacingOneMinute * 2
    ELSE p.nPowTargetSpacingOneMinute

\* The bounded timespan of ComputeTarget before the one-minute fork.
ClampDAATimespan(nActualTimespan, p) ==
    IF nActualTimespan > 288 * p.nPowTargetSpacing THEN 288 * p.nPowTargetSpacing
    ELSE IF nActualTimespan < 72 * p.nPowTargetSpacing THEN 72 * p.nPowTargetSpacing
    ELSE nActualTimespan

\* Whether ComputeTarget takes the branch of before the one-minute fork.
DampenedRegime(pindexLast, p) == Height(pindexLast) < p.oneMinuteBlockHeight

\* The value of work in ComputeTarget after work /= nActualTimespan, for
\* anchors that pass its asserts.
ComputeTargetWork(ch, pindexFirst, pindexLast, p) ==
    LET work == Minus(ch[pindexLast].nChainWork, ch[pindexFirst].nChainWork)
        nActualTimespan == ch[pindexLast].nTime - ch[pindexFirst].nTime
        pindex5 == GetAncestor(pindexLast, Height(pindexLast) - 5)
    IN  IF DampenedRegime(pindexLast, p)
        THEN DividedBy(Times(work, p.nPowTargetSpacing),
                       U256(ClampDAATimespan(nActualTimespan, p)))
        ELSE DividedBy(Times(work, AdjustedSpacing(ch, pindexLast, pindex5, p)),
                       U256(nActualTimespan))

\* ComputeTarget: (-work) / work; the division throws for work = 0.
ComputeTarget(ch, pindexFirst, pindexLast, p) ==
    IF ~(Height(pindexLast) > Height(pindexFirst))
    THEN Aborted("pindexLast->nHeight > pindexFirst->nHeight")
    ELSE IF ~(ch[pindexLast].nTime > ch[pindexFirst].nTime)
    THEN Aborted("pindexLast->nTime > pindexFirst->nTime")
    ELSE IF ~DampenedRegime(pindexLast, p)
            /\ GetAncestor(pindexLast, Height(pindexLast) - 5) = NULL
    THEN Aborted("pindex5")
    ELSE LET work == ComputeTargetWork(ch, pindexFirst, pindexLast, p)
         IN  IF ByteSize(work) = 0 THEN Thrown("Division by zero")
             ELSE Returned(DividedBy(Negate(work), work))

\* Whether GetNextCoreWorkRequired applies the one-minute period and spacing.
OneMinuteRegime(nHeight, p) == nHeight > p.oneMinuteBlockHeight

\* nDAAPeriods
DAAPeriods(nHeight, p) == IF OneMinuteRegime(nHeight, p) THEN 72 ELSE 144

\* nPowTargetSpacing of GetNextCoreWorkRequired
DAASpacing(nHeight, p) ==
    IF OneMinuteRegime(nHeight, p) THEN p.nPowTargetSpacingOneMinute
    ELSE p.nPowTargetSpacing

\* The special difficulty rule for testnet of GetNextCoreWorkRequired.
MinDifficultyOverride(ch, pindexFirst, pindexLast, nPowTargetSpacing, p) ==
    /\ p.fPowAllowMinDifficultyBlocks
    /\ ch[pindexLast].nTime - ch[pindexFirst].nTime
           > ch[pindexLast].nTime + 240 * nPowTargetSpacing

\* GetNextCoreWorkRequired from the anchors on: the testnet rule when the
\* function has it (fRule), then the target clamped to the limit.
CoreTargetFromAnchors(ch, pindexFirst, pindexLast, nPowTargetSpacing, p, fRule) ==
    IF fRule /\ MinDifficultyOverride(ch, pindexFirst, pindexLast, nPowTargetSpacing, p)
    THEN Returned(PowLimitCompact(p))
    ELSE LET nextTarget == ComputeTarget(ch, pindexFirst, pindexLast, p)
         IN  IF nextTarget.kind # "ok" THEN nextTarget
             ELSE Returned(GetCompact(ClampToPowLimit(nextTarget.ret, p)))

\* The first anchor's position: the ancestor nDAAPeriods below pindexPrev.
\* nHeight - nDAAPeriods is computed in uint32_t and passed as an int: below
\* height nDAAPeriods it is negative and GetAncestor returns nullptr.
FirstAnchorAncestor(pindexPrev, nDAAPeriods) ==
    GetAncestor(pindexPrev, Height(pindexPrev) - nDAAPeriods)

\* GetNextCoreWorkRequired once nDAAPeriods and nPowTargetSpacing are
\* chosen, with (fRule) or without its testnet rule.
CoreWorkFromWindow(ch, pindexPrev, p, nDAAPeriods, nPowTargetSpacing, fRule) ==
    LET pindexLast == GetSuitableBlock(ch, pindexPrev)
        pindexFirst == GetSuitableBlock(ch, FirstAnchorAncestor(pindexPrev, nDAAPeriods))
    IN  IF pindexLast.kind # "ok" THEN pindexLast
        ELSE IF pindexFirst.kind # "ok" THEN pindexFirst
        ELSE CoreTargetFromAnchors(ch, pindexFirst.ret, pindexLast.ret,
                                   nPowTargetSpacing, p, fRule)

\* GetNextCoreWorkRequired, with (fRule) or without its testnet rule.
CoreWorkRequired(ch, pindexPrev, p, fRule) ==
    CoreWorkFromWindow(ch, pindexPrev, p, DAAPeriods(Height(pindexPrev), p),
                       DAASpacing(Height(pindexPrev), p), fRule)

GetNextCoreWorkRequired(ch, pindexPrev, nBlockTime, p) ==
    CoreWorkRequired(ch, pindexPrev, p, TRUE)

\* The fixed result of the first 150 testnet blocks.
EarlyTestnetBits == 538968063

\* GetNextWorkRequired for an existing pindexPrev.
WorkRequiredAfter(ch, pindexPrev, nBlockTime, p) ==
    IF p.fPowAllowMinDifficultyBlocks /\ Height(pindexPrev) <= 150
    THEN Returned(EarlyTestnetBits)
    ELSE IF p.fPowNoRetargeting THEN Returned(ch[pindexPrev].nBits)
    ELSE IF GetMedianTimePast(ch, pindexPrev) >= p.coreHardForkActivationTime
    THEN GetNextCoreWorkRequired(ch, pindexPrev, nBlockTime, p)
    ELSE GetNextEDAWorkRequired(ch, pindexPrev, nBlockTime, p)

\* GetNextWorkRequired: the set of outcomes of a call.  With no previous
\* block the function reads pindexPrev->nHeight before its null test:
\* the read of the null pointer either faults or, the value being unused on
\* that path, is never performed and the genesis branch returns.
GetNextWorkRequired(ch, pindexPrev, nBlockTime, p) ==
    IF pindexPrev = NULL
    THEN {Crashed("pindexPrev->nHeight"), Returned(PowLimitCompact(p))}
    ELSE {WorkRequiredAfter(ch, pindexPrev, nBlockTime, p)}

\* CheckProofOfWork
CheckProofOfWork(hash, nBits, p) ==
    LET d == SetCompact(nBits)
    IN  IF \/ d.fNegative
           \/ ByteSize(d.value) = 0
           \/ d.fOverflow
           \/ CompareTo(d.value, UintToArith256(p.powLimit)) > 0
        THEN FALSE
        ELSE IF CompareTo(UintToArith256(hash), d.value) > 0 THEN FALSE
        ELSE TRUE

\* ------------------------------------------------------------------------
\* Networks, chains and the operations applied to them
\* ------------------------------------------------------------------------

\* 00000000ffff...ff: the limit 2^224 - 1 (compact 0x1d00ffff).
PowLimitMain == Tuple([i \in Bytes |-> IF i > WIDTH - 4 THEN 0 ELSE 255])

\* 0000ffff...ff: the limit 2^240 - 1 (compact 0x1f00ffff).
PowLimitLow == Tuple([i \in Bytes |-> IF i > WIDTH - 2 THEN 0 ELSE 255])

\* 001fffff...ff: the limit 2^245 - 1 (compact 0x1f1fffff).
PowLimitMid == Tuple([i \in Bytes |-> IF i = WIDTH THEN 0
                                       ELSE IF i = WIDTH - 1 THEN 31 ELSE 255])

\* 1fffffff...ff: the limit 2^253 - 1 (compact 0x201fffff).
PowLimitTest == Tuple([i \in Bytes |-> IF i = WIDTH THEN 31 ELSE 255])

\* ffffffff...ff: every 256-bit value is within the limit.
PowLimitAll == Tuple([i \in Bytes |-> 255])

\* An activation time no block of the model reaches.
NeverActive == 2000000000

\* A network: 14 days, 10 minutes and one minute, as on the main network.
Network(limit, fMinDiff, fNoRetarget, nActivation, nOneMinuteHeight) ==
    [powLimit |-> limit,
     nPowTargetTimespan |-> 14 * 24 * 60 * 60,
     nPowTargetSpacing |-> 10 * 60,
     nPowTargetSpacingOneMinute |-> 60,
     oneMinuteBlockHeight |-> nOneMinuteHeight,
     fPowAllowMinDifficultyBlocks |-> fMinDiff,
     fPowNoRetargeting |-> fNoRetarget,
     coreHardForkActivationTime |-> nActivation]

\* The time of the genesis block of the model's chains.
GenesisTime == 1000000

\* A chain of len blocks carrying the same bits, dt seconds apart, with a
\* gap more before the block at position jumpAt, and the times of the last
\* three blocks moved by tail[1..3] seconds.
BuildChain(len, dt, nBits, jumpAt, gap, tail) ==
    LET w == GetBlockProof(nBits)
    IN  SubSeq([i \in 1..len |->
                  [nTime |-> GenesisTime + (i - 1) * dt
                               + (IF i >= jumpAt THEN gap ELSE 0)
                               + (IF i > len - 3 /\ i > 1 THEN tail[i - (len - 3)] ELSE 0),
                   nBits |-> nBits,
                   nChainWork |-> Times(w, i)]], 1, len)

NoCall ==
    [op |-> "none", prev |-> NULL, time |-> 0, nBits |-> 0, hash |-> U256(0),
     valid |-> FALSE, out |-> Returned(0)]

\* The record of a call of GetNextWorkRequired or GetNextCoreWorkRequired.
WorkCall(name, pindexPrev, nBlockTime, o) ==
    [op |-> name, prev |-> pindexPrev, time |-> nBlockTime, nBits |-> 0,
     hash |-> U256(0), valid |-> FALSE, out |-> o]

\* The seconds between a block and the candidate after it.
BlockGaps == {60, 600, 1201}

\* The height up to which a chain grown from genesis is followed.
MaxGrow == 4

\* A miner asks for the work of the block after the tip (a block template):
\* nothing is added to the chain.
QueryWorkRequired ==
    \E gap \in BlockGaps :
        LET t == chain[Len(chain)].nTime + gap
        IN  \E o \in GetNextWorkRequired(chain, Len(chain), t, params) :
                /\ call' = WorkCall("GetNextWorkRequired", Len(chain), t, o)
                /\ UNCHANGED <<chain, params>>

\* The work of the genesis block is asked for: there is no previous block.
QueryGenesisWork ==
    \E o \in GetNextWorkRequired(chain, NULL, GenesisTime, params) :
        /\ call' = WorkCall("GetNextWorkRequired", NULL, GenesisTime, o)
        /\ UNCHANGED <<chain, params>>

\* GetNextCoreWorkRequired is called on the tip.
QueryCoreWorkRequired ==
    LET t == chain[Len(chain)].nTime + 60
    IN  /\ call' = WorkCall("GetNextCoreWorkRequired", Len(chain), t,
                            GetNextCoreWorkRequired(chain, Len(chain), t, params))
        /\ UNCHANGED <<chain, params>>

\* A block is mined on the tip with the bits GetNextWorkRequired gives and
\* becomes the new tip; if the call does not return, the chain stays.
\* The model follows chains whose length is in `lengths`.
ConnectBlock(lengths) ==
    /\ Len(chain) \in lengths
    /\ \E gap \in BlockGaps :
        LET t == chain[Len(chain)].nTime + gap
        IN  \E o \in GetNextWorkRequired(chain, Len(chain), t, params) :
                /\ call' = WorkCall("GetNextWorkRequired", Len(chain), t, o)
                /\ IF o.kind = "ok"
                   THEN chain' = Append(chain,
                             [nTime |-> t, nBits |-> o.ret,
                              nChainWork |-> Plus(chain[Len(chain)].nChainWork,
                                                  GetBlockProof(o.ret))])
                   ELSE chain' = chain
                /\ UNCHANGED params

\* A header is checked against the bits it claims.
VerifyHeader(hashes, bits) ==
    \E hash \in hashes, nBits \in bits :
        /\ call' = [op |-> "CheckProofOfWork", prev |-> NULL, time |-> 0,
                    nBits |-> nBits, hash |-> hash,
                    valid |-> CheckProofOfWork(hash, nBits, params),
                    out |-> Returned(0)]
        /\ UNCHANGED <<chain, params>>

\* The median-of-three selector is applied to a block of the chain.
SelectSuitableBlock ==
    \E pindex \in 1..Len(chain) :
        /\ call' = [op |-> "GetSuitableBlock", prev |-> pindex, time |-> 0,
                    nBits |-> 0, hash |-> U256(0), valid |-> FALSE,
                    out |-> GetSuitableBlock(chain, pindex)]
        /\ UNCHANGED <<chain, params>>

\* --- Spec: chains grown from the genesis block --------------------------

\* The networks of the chains grown from genesis: main-like with the legacy
\* rule, main-like with the weighted rule active from the start, test
\* networks with a limit below and at 0x201fffff, and a regtest network.
GrowNetworks ==
    {Network(PowLimitLow, FALSE, FALSE, NeverActive, 0),
     Network(PowLimitLow, FALSE, FALSE, 0, 0),
     Network(PowLimitLow, TRUE, FALSE, 0, 0),
     Network(PowLimitTest, TRUE, FALSE, 0, 0),
     Network(PowLimitTest, FALSE, TRUE, NeverActive, 0),
     Network(PowLimitLow, TRUE, TRUE, NeverActive, 0)}

\* The genesis block of a network carries its proof-of-work limit.
GenesisChain(p) ==
    <<[nTime |-> GenesisTime, nBits |-> PowLimitCompact(p),
       nChainWork |-> GetBlockProof(PowLimitCompact(p))]>>

Init ==
    /\ params \in GrowNetworks
    /\ chain = GenesisChain(params)
    /\ call = NoCall

Next ==
    \/ ConnectBlock(1..MaxGrow)
    \/ QueryGenesisWork

Spec == Init /\ [][Next]_vars

\* C1: with no previous block GetNextWorkRequired returns the compact
\* proof-of-work limit, and does not fail.
GenesisReturnsPowLimit ==
    (call.op = "GetNextWorkRequired" /\ call.prev = NULL)
        => (call.out.kind = "ok" /\ call.out.ret = PowLimitCompact(params))

\* C3: on a chain whose bits GetNextWorkRequired produced, the compact target
\* it returns decodes to at most the proof-of-work limit.
TargetWithinPowLimit ==
    (call.op = "GetNextWorkRequired" /\ call.out.kind = "ok")
        => CompareTo(SetCompact(call.out.ret).value,
                     UintToArith256(params.powLimit)) <= 0

\* The ways a windowed computation fails for lack of history.
HistoryFailures ==
    {"pindexFirst", "pindex6", "pindex->nHeight >= 3", "pindex->nHeight", "pindex5"}

\* C4: for an existing previous block, GetNextWorkRequired never reaches a
\* windowed computation that lacks its history.
NoHistoryPreconditionFails ==
    (call.op = "GetNextWorkRequired" /\ call.prev # NULL)
        => call.out.err \notin HistoryFailures

\* --- SpecVerify: headers checked against claimed bits --------------------

\* The compact values a header claims: zero, the limits and their
\* neighbours, values that decode to zero, negative values (0x04923456,
\* 0x01fedcba), and values that overflow 256 bits (0x21012345, 0x22000100,
\* 0x23000001, 0x7f000001).
HeaderBits ==
    {0, 486604799, 486604798, 486604800, 478150655, 520159231, 521142271,
     538968063, 545259519, 553713663, 16790614, 17965056, 76690518,
     33479354, 16777216 + 8388608, 553722693, 570425600, 587202561,
     2130706433, 25165824 + 4660}

\* The hashes of the headers: zero, the largest, and each decoded target
\* with its two neighbours.
HeaderHashes ==
    {U256(0), PowLimitAll, PowLimitMain}
        \cup UNION {{SetCompact(b).value,
                     Plus(SetCompact(b).value, U256(1)),
                     Minus(SetCompact(b).value, U256(1))} :
                    b \in {486604799, 478150655, 538968063, 76690518, 553722693}}

VerifyNetworks ==
    {Network(PowLimitMain, FALSE, FALSE, NeverActive, 0),
     Network(PowLimitTest, TRUE, FALSE, NeverActive, 0),
     Network(PowLimitAll, TRUE, TRUE, NeverActive, 0)}

InitVerify ==
    /\ params \in VerifyNetworks
    /\ chain = GenesisChain(Network(PowLimitTest, TRUE, FALSE, NeverActive, 0))
    /\ call = NoCall

NextVerify == VerifyHeader(HeaderHashes, HeaderBits)

SpecVerify == InitVerify /\ [][NextVerify]_vars

\* C2: CheckProofOfWork accepts a header iff its bits decode without the
\* negative or the overflow flag to a target T with 0 < T <= powLimit and the
\* hash, as a number, is at most T.
VerifyAcceptsExactly ==
    call.op = "CheckProofOfWork" =>
        LET d == SetCompact(call.nBits)
        IN  call.valid <=>
              /\ ~d.fNegative
              /\ ~d.fOverflow
              /\ CompareTo(d.value, U256(0)) > 0
              /\ CompareTo(d.value, UintToArith256(params.powLimit)) <= 0
              /\ CompareTo(UintToArith256(call.hash), d.value) <= 0

\* A header accepted with its hash equal to the target, the target equal to
\* the limit.
VerifyAcceptsAtLimit ==
    /\ call.op = "CheckProofOfWork"
    /\ call.valid
    /\ call.hash = SetCompact(call.nBits).value
    /\ call.nBits = PowLimitCompact(params)

\* --- SpecSelect: the median-of-three selector ----------------------------

\* The offsets, in seconds from the genesis time, of the blocks of the
\* selector's chains.
SelectTimes == {0, 60, 120}

\* The number of blocks of the selector's chains.
SelectLength == 4

InitSelect ==
    /\ params = Network(PowLimitTest, TRUE, FALSE, NeverActive, 0)
    /\ \E ts \in [1..SelectLength -> SelectTimes] :
          chain = SubSeq([i \in 1..SelectLength |->
                            [nTime |-> GenesisTime + ts[i], nBits |-> EarlyTestnetBits,
                             nChainWork |-> Times(GetBlockProof(EarlyTestnetBits), i)]],
                         1, SelectLength)
    /\ call = NoCall

NextSelect == SelectSuitableBlock

SpecSelect == InitSelect /\ [][NextSelect]_vars

\* The median of three numbers: the one that is neither below nor above
\* two of the three.
Median3(a, b, c) ==
    CHOOSE m \in {a, b, c} :
        /\ Cardinality({i \in 1..3 : <<a, b, c>>[i] <= m}) >= 2
        /\ Cardinality({i \in 1..3 : <<a, b, c>>[i] >= m}) >= 2

LegacyNetworks ==
    {Network(PowLimitLow, FALSE, FALSE, NeverActive, 0),
     Network(PowLimitMid, FALSE, FALSE, NeverActive, 0),
     Network(PowLimitTest, FALSE, FALSE, NeverActive, 0),
     Network(PowLimitLow, TRUE, FALSE, NeverActive, 0)}

\* The bits of the short chains: 0x1f00f000, 0x1f008000, 0x1d00ffff and
\* 0x1f00ffff, the limit of two of the networks.
ShortChainBits == {520155136, 520126464, 486604799, 520159231}

\* The seconds added between the blocks of height 4 and 5 of a short chain:
\* with 600 seconds between the other blocks, the six-block span of median
\* times is 2400 seconds more.
ShortChainGaps == {0, 40799, 40800, 90000}

\* The number of blocks of the short chains: the tip has the full eleven
\* blocks of its median time, and so has the block after it.
ShortLength == nMedianTimeSpan + 2

ShortChains ==
    {BuildChain(ShortLength, 600, b, 6, g, <<0, 0, 0>>) :
        b \in ShortChainBits, g \in ShortChainGaps}

\* The bits of the long chains: 0x1d00ffff, 0x1e0fffff, 0x1f00f000, and
\* 0x1e0000ff, which is not what GetCompact gives for its target.
LongChainBits == {486604799, 504365055, 520155136, 503316735}

\* The seconds between the blocks of the long chains.
LongChainSpacings == {570}

\* The seconds by which the long chains miss the target timespan.
LongChainExcess == {0, 3600}

\* The lengths of the long chains: the tip is the last block of the first
\* retarget interval, or the first block of the second.
LongLengths(p) ==
    {DifficultyAdjustmentInterval(p), DifficultyAdjustmentInterval(p) + 1}

\* Chains whose tip is nPowTargetTimespan (plus the excess) after genesis,
\* the seconds the spacing leaves over added before the ninth block from the
\* tip; they are built on the networks of the lower limit.
LongChains(p) ==
    IF p.powLimit # PowLimitLow THEN {} ELSE
    {BuildChain(len, dt, b, len - 9,
                p.nPowTargetTimespan - (len - 1) * dt + x, <<0, 0, 0>>) :
        len \in LongLengths(p), dt \in LongChainSpacings,
        b \in LongChainBits, x \in LongChainExcess}

\* Whether every block of the chain carries a target within the limit.
WithinLimit(ch, p) ==
    \A i \in {1, Len(ch)} :
        CompareTo(SetCompact(ch[i].nBits).value, UintToArith256(p.powLimit)) <= 0

InitLegacy ==
    /\ params \in LegacyNetworks
    /\ chain \in ShortChains \cup LongChains(params)
    /\ WithinLimit(chain, params)
    /\ call = NoCall

\* The lengths at which SpecLegacy adds a block: the long chains are
\* queried only.
LegacyLengths == {ShortLength, ShortLength + 1}

NextLegacy ==
    \/ QueryWorkRequired
    \/ ConnectBlock(LegacyLengths)

SpecLegacy == InitLegacy /\ [][NextLegacy]_vars

\* Whether the last call was GetNextWorkRequired and went to
\* GetNextEDAWorkRequired.
LegacyCall ==
    /\ call.op = "GetNextWorkRequired"
    /\ call.prev # NULL
    /\ ~(params.fPowAllowMinDifficultyBlocks /\ Height(call.prev) <= 150)
    /\ ~params.fPowNoRetargeting
    /\ GetMedianTimePast(chain, call.prev) < params.coreHardForkActivationTime

\* The span of median times over the six blocks below the call's pindexPrev.
SixBlockSpan ==
    GetMedianTimePast(chain, call.prev) - GetMedianTimePast(chain, call.prev - 6)

\* A mid-interval call of the legacy path on a main-like network whose
\* previous block is not at the limit and has six blocks below it.
EmergencyCase ==
    /\ LegacyCall
    /\ (Height(call.prev) + 1) % DifficultyAdjustmentInterval(params) # 0
    /\ ~params.fPowAllowMinDifficultyBlocks
    /\ chain[call.prev].nBits # PowLimitCompact(params)
    /\ Height(call.prev) >= 6

\* C7: mid-interval, without the min-difficulty rules and off the limit, a
\* six-block span of median times below 12 hours returns the previous bits,
\* and a span of 12 hours or more, 43200 seconds included, returns the
\* encoding of min(powLimit, T + (T >> 2)), T the previous target.
EmergencyAdjustmentFromTwelveHours ==
    EmergencyCase =>
        LET T == SetCompact(chain[call.prev].nBits).value
            eased == Plus(T, ShiftRightBits(T, 4))
            limit == UintToArith256(params.powLimit)
        IN  IF SixBlockSpan < 43200
            THEN call.out = Returned(chain[call.prev].nBits)
            ELSE call.out = Returned(GetCompact(IF CompareTo(eased, limit) > 0
                                                THEN limit ELSE eased))

\* The emergency adjustment has engaged on a span of exactly 12 hours and
\* eased the target.
EmergencyAdjustmentAtTwelveHours ==
    /\ EmergencyCase
    /\ SixBlockSpan = 43200
    /\ call.out.kind = "ok"
    /\ call.out.ret # chain[call.prev].nBits
    /\ CompareTo(SetCompact(call.out.ret).value,
                 SetCompact(chain[call.prev].nBits).value) > 0

\* The previous block's target is within the limit, its bits are the
\* encoding GetCompact gives it, and its product with the target timespan
\* fits 256 bits.
RetargetableTarget ==
    LET T == SetCompact(chain[call.prev].nBits).value
    IN  /\ CompareTo(T, UintToArith256(params.powLimit)) <= 0
        /\ GetCompact(T) = chain[call.prev].nBits
        /\ CompareTo(T, DividedBy(PowLimitAll, U256(params.nPowTargetTimespan))) <= 0

\* C8 (as stated): with the previous block at height 2016, fourteen days
\* after the block 2016 below it, the call returns the previous bits.
RetargetAtHeightOfInterval ==
    (/\ LegacyCall
     /\ Height(call.prev) = DifficultyAdjustmentInterval(params)
     /\ chain[call.prev].nTime
          - chain[call.prev - DifficultyAdjustmentInterval(params)].nTime
            = params.nPowTargetTimespan
     /\ RetargetableTarget)
        => call.out = Returned(chain[call.prev].nBits)

\* C8 (amended): with the previous block at height 2015, the last of its
\* interval, fourteen days after the first block of the interval, 2015
\* below it, the call returns the previous bits, for a canonical target
\* within the limit whose product with the timespan fits 256 bits.
RetargetAtEndOfInterval ==
    (/\ LegacyCall
     /\ Height(call.prev) + 1 = DifficultyAdjustmentInterval(params)
     /\ chain[call.prev].nTime - chain[1].nTime = params.nPowTargetTimespan
     /\ RetargetableTarget)
        => call.out = Returned(chain[call.prev].nBits)

\* A retarget after exactly fourteen days has returned the previous bits
\* although the last six blocks took more than 12 hours.
RetargetAfterFourteenDays ==
    /\ LegacyCall
    /\ Height(call.prev) + 1 = DifficultyAdjustmentInterval(params)
    /\ chain[call.prev].nTime - chain[1].nTime = params.nPowTargetTimespan
    /\ RetargetableTarget
    /\ chain[call.prev].nBits # PowLimitCompact(params)
    /\ SixBlockSpan >= 43200
    /\ call.out = Returned(chain[call.prev].nBits)

\* --- SpecDAA: the weighted adjustment -----------------------------------

\* The heights at which the one-minute spacing begins on the networks of
\* SpecDAA: below, at and above the heights of the tips.
OneMinuteHeights == {100, 152, 200}

\* Networks with the weighted rule active from the genesis time on, with and
\* without the min-difficulty rules.
DAANetworks ==
    {Network(PowLimitTest, m, FALSE, 0, a) : m \in BOOLEAN, a \in OneMinuteHeights}

\* The lengths of the chains of SpecDAA: the tips are past the first 150
\* blocks and have 144 blocks and two more below them.
DAALengths == {153, 154}

\* The length at which SpecDAA adds a block.
DAAGrowLengths == {154}

\* The seconds between the blocks of the chains of SpecDAA.
DAASpacings == {10, 60, 600}

\* The bits of the chains of SpecDAA: 0x201fffff and 0x1f00ffff.
DAABits == {EarlyTestnetBits, 520159231}

\* The seconds by which the times of the last three blocks are moved: none,
\* the tip before its parent, the grandparent after the parent.
DAATails(dt) == {<<0, 0, 0>>, <<0, 0, 0 - (3 * dt) \div 2>>, <<(5 * dt) \div 3, 0, 0>>}

InitDAA ==
    /\ params \in DAANetworks
    /\ \E len \in DAALengths, dt \in DAASpacings, b \in DAABits :
          \E tail \in DAATails(dt) :
              chain = BuildChain(len, dt, b, 1, 0, tail)
    /\ call = NoCall

NextDAA ==
    \/ QueryWorkRequired
    \/ QueryCoreWorkRequired
    \/ ConnectBlock(DAAGrowLengths)

SpecDAA == InitDAA /\ [][NextDAA]_vars

\* Whether the last call was GetNextCoreWorkRequired, called directly or by
\* GetNextWorkRequired.
CoreCall ==
    \/ call.op = "GetNextCoreWorkRequired"
    \/ /\ call.op = "GetNextWorkRequired"
       /\ call.prev # NULL
       /\ ~(params.fPowAllowMinDifficultyBlocks /\ Height(call.prev) <= 150)
       /\ ~params.fPowNoRetargeting
       /\ GetMedianTimePast(chain, call.prev) >= params.coreHardForkActivationTime

\* C6: with the previous block at height H and the one-minute height A,
\* GetNextCoreWorkRequired works on 144 blocks and the legacy spacing when
\* H < A, and on 72 blocks and the one-minute spacing when H >= A.
WindowFollowsOneMinuteHeight ==
    CoreCall =>
        LET before == Height(call.prev) < params.oneMinuteBlockHeight
        IN  call.out =
              CoreWorkFromWindow(chain, call.prev, params,
                  IF before THEN 144 ELSE 72,
                  IF before THEN params.nPowTargetSpacing
                  ELSE params.nPowTargetSpacingOneMinute,
                  TRUE)

\* The anchors of the last call of GetNextCoreWorkRequired.
LastAnchor == GetSuitableBlock(chain, call.prev)
FirstAnchor ==
    GetSuitableBlock(chain,
        FirstAnchorAncestor(call.prev, DAAPeriods(Height(call.prev), params)))

ComputeTargetDividesByPositiveWork ==
    CoreCall => call.out # Thrown("Division by zero")

====
